---- MODULE Spec2Model ----
(***************************************************************************)
(* Cover-art tools of the MusicScripts repository (artwork-update/):       *)
(*   embed-artwork.py   embeds a folder's cover.jpg into its MP3 files     *)
(*   export-coverart.py writes cover.jpg from the first MP3's artwork      *)
(*   id3tocovr.py       downloads cover.jpg from online providers          *)
(* The state is the music library on disk (each folder's cover.jpg and     *)
(* MP3 files with their APIC frames), the scratch file                     *)
(* /tmp/temp_cover.jpg, and one run of one tool: its arguments, the        *)
(* folders still to be handed to per-folder processing, and what the last  *)
(* per-folder call printed, wrote and queried.                             *)
(***************************************************************************)
EXTENDS Integers, Sequences, FiniteSets, TLC

VARIABLES cover, mp3, scratch, config, tool, argv, pc, queue, handed, out, writes, queries

vars == <<cover, mp3, scratch, config, tool, argv, pc, queue, handed, out, writes, queries>>

(***************************************************************************)
(* Program constants and bounds                                            *)
(***************************************************************************)
\* embed-artwork.py: TEMP_RES, fallback of the configuration value
TEMP_RES == 600
\* most APIC frames an MP3 file starts with
MaxTags == 2
\* most MP3 files a folder starts with
MaxFiles == 2

(***************************************************************************)
(* The library tree under ROOT_MUSIC_DIR                                   *)
(***************************************************************************)
Root == "ROOT"
Folders == {"Artist", "Album", "CD 1", "CD 2", "Single"}

\* os.listdir of the directories of a directory, in listing order
Children(d) ==
    CASE d = Root     -> <<"Artist">>
      [] d = "Artist" -> <<"Album", "Single">>
      [] d = "Album"  -> <<"CD 1", "CD 2">>
      [] OTHER        -> <<>>

\* dir_name.startswith("CD ")
StartsWithCDSpace(d) == d \in {"CD 1", "CD 2"}

\* f.lower().startswith("cd")
LowerStartsWithCd(d) == d \in {"CD 1", "CD 2"}

RECURSIVE ConcatAll(_)
ConcatAll(ss) == IF ss = <<>> THEN <<>> ELSE Head(ss) \o ConcatAll(Tail(ss))

\* the dir_name of every (root, dirs, files) of os.walk(top), top-down
RECURSIVE Walk(_)
Walk(top) ==
    Children(top) \o ConcatAll([i \in 1..Len(Children(top)) |-> Walk(Children(top)[i])])

(***************************************************************************)
(* File contents                                                           *)
(***************************************************************************)
Absent  == [kind |-> "absent",  fmt |-> "-", mode |-> "-", w |-> 0, h |-> 0]
Empty   == [kind |-> "empty",   fmt |-> "-", mode |-> "-", w |-> 0, h |-> 0]
Garbage == [kind |-> "garbage", fmt |-> "-", mode |-> "-", w |-> 0, h |-> 0]
\* the part of a download written before the stream broke
Truncated == [kind |-> "truncated", fmt |-> "-", mode |-> "-", w |-> 0, h |-> 0]

Img(f, m, x, y) == [kind |-> "image", fmt |-> f, mode |-> m, w |-> x, h |-> y]

Dims == {TEMP_RES - 1, TEMP_RES, TEMP_RES + 1}

\* (format, mode) of the images of the model: a JPEG; PNGs in RGB, in a mode
\* that img.convert('RGB') handles (RGBA, P), and in one a JPEG cannot hold (LA)
Encodings == {<<"JPEG", "RGB">>, <<"PNG", "RGB">>, <<"PNG", "RGBA">>, <<"PNG", "LA">>}

Images == {Img(e[1], e[2], x, y) : e \in Encodings, x \in Dims, y \in Dims}

\* Image.open(path) succeeds
Decodable(b) == b.kind = "image"

\* a valid JPEG image
IsJPEG(b) == b.kind = "image" /\ b.fmt = "JPEG"

\* an APIC frame; mutagen keys it "APIC:<desc>"
APIC(t, d, b) == [frame |-> "APIC", type |-> t, desc |-> d, mime |-> "image/jpeg", data |-> b]

\* a text frame (the artist, TPE1), which every loadable file of the model holds
TextFrame == [frame |-> "TPE1", type |-> 0, desc |-> "", mime |-> "", data |-> Empty]

\* isinstance(tag, APIC); as a key, tag.startswith("APIC")
IsApic(t) == t.frame = "APIC"

\* an MP3 file: health "ok" (ID3() loads it), "badtag" (ID3() raises ID3Error),
\* "ioerror" (ID3() raises another exception: the file cannot be read)
Mp3(hl, tg) == [health |-> hl, tags |-> tg]

\* a print or log record of the last per-folder call: the message, and the
\* number of the MP3 file (in listing order) it is about, 0 for the folder
Msg(m, i) == [msg |-> m, file |-> i]

\* the files the last per-folder call wrote
ScratchFile  == <<"/tmp/temp_cover.jpg", 0>>
CoverFile    == <<"cover.jpg", 0>>
Mp3File(i)   == <<"mp3", i>>

(***************************************************************************)
(* embed-artwork.py                                                        *)
(***************************************************************************)
\* img.convert('RGB') when img.mode in ['RGBA', 'P']
ConvertMode(m) == IF m \in {"RGBA", "P"} THEN "RGB" ELSE m

\* Pillow's JPEG writer takes the mode (it refuses LA: "cannot write mode LA as JPEG")
JpegWritable(m) == m \in {"RGB", "L", "CMYK"}

\* check_cover_resolution: img.size
check_cover_resolution(b) == <<b.w, b.h>>

\* a faulty variant of create_temp_cover: the image is resized as soon as one
\* of its dimensions reaches temp_res
create_temp_cover_EitherDimension(b, temp_res) ==
    LET m  == IF b.mode \in {"RGBA", "P"} THEN "RGB" ELSE b.mode
        sz == IF b.w >= temp_res \/ b.h >= temp_res
              THEN <<temp_res, temp_res>> ELSE <<b.w, b.h>>
    IN  IF b.kind = "image" /\ m \in {"RGB", "L", "CMYK"}
        THEN [raised |-> FALSE, saved |-> [kind |-> "image", fmt |-> "JPEG", mode |-> m,
                                           w |-> sz[1], h |-> sz[2]]]
        ELSE [raised |-> TRUE, saved |-> Empty]

\* create_temp_cover: the image saved to /tmp/temp_cover.jpg, or the exception.
\* A save that raises has already opened the scratch file for writing.
create_temp_cover(b, temp_res) ==
    LET m  == ConvertMode(b.mode)
        sz == IF b.w >= temp_res /\ b.h >= temp_res
              THEN <<temp_res, temp_res>> ELSE <<b.w, b.h>>
    IN  IF Decodable(b) /\ JpegWritable(m)
        THEN [raised |-> FALSE, saved |-> Img("JPEG", m, sz[1], sz[2])]
        ELSE [raised |-> TRUE, saved |-> Empty]

\* the APIC frames of a file, in the order of audio_file.values()
ApicTags(tags) == SelectSeq(tags, IsApic)

\* get_embedded_artwork_resolution: the size of the first APIC frame's image,
\* "none" without an APIC frame, "raised" when that image cannot be opened
get_embedded_artwork_resolution(tags) ==
    IF ApicTags(tags) = <<>> THEN [res |-> "none", w |-> 0, h |-> 0]
    ELSE LET d == ApicTags(tags)[1].data
         IN  IF Decodable(d) THEN [res |-> "size", w |-> d.w, h |-> d.h]
             ELSE [res |-> "raised", w |-> 0, h |-> 0]

\* a faulty variant of the comparison: the artwork is kept only when strictly larger
EmbeddedIsStrictlyBetter(ew, eh, nw, nh) == ew > nw /\ eh > nh

\* the comparison that keeps the embedded artwork (line 168)
EmbeddedIsBetter(ew, eh, nw, nh) == ew >= nw /\ eh >= nh

\* a faulty variant of remove_artwork: only the frame keyed "APIC:Cover" is deleted
remove_artwork_CoverOnly(tags) == SelectSeq(tags, LAMBDA t : ~(IsApic(t) /\ t.desc = "Cover"))

\* remove_artwork: every key that starts with "APIC" is deleted
remove_artwork(tags) == SelectSeq(tags, LAMBDA t : ~IsApic(t))

\* ID3.add: the frame replaces the one of the same key, or is appended
ID3Add(tags, frame) ==
    LET same(t) == t.frame = frame.frame /\ t.desc = frame.desc
    IN  IF \E i \in 1..Len(tags) : same(tags[i])
        THEN [i \in 1..Len(tags) |-> IF same(tags[i]) THEN frame ELSE tags[i]]
        ELSE Append(tags, frame)

\* the frame process_folder embeds (lines 178-184)
NewCoverFrame(data) == APIC(3, "Cover", data)

\* the body of the loop over music_files for file number i (lines 153-188):
\* the file as saved, whether it was saved, and the prints
EmbedFile(file, i, cand) ==
    LET er == get_embedded_artwork_resolution(file.tags)
        start == <<Msg("processing", i)>>
    IN  IF file.health # "ok" \/ er.res = "raised"
        THEN [file |-> file, saved |-> FALSE, out |-> start \o <<Msg("error", i)>>]
        ELSE IF er.res = "size" /\ EmbeddedIsBetter(er.w, er.h, cand.w, cand.h)
        THEN [file |-> file, saved |-> FALSE,
              out |-> start \o <<Msg("found_embedded", i), Msg("skip_embedding", i)>>]
        ELSE [file |-> Mp3("ok", ID3Add(remove_artwork(file.tags), NewCoverFrame(cand))),
              saved |-> TRUE,
              out |-> start
                      \o (IF er.res = "size" THEN <<Msg("found_embedded", i)>> ELSE <<>>)
                      \o [k \in 1..Len(ApicTags(file.tags)) |-> Msg("removed", i)]
                      \o <<Msg("embedded", i)>>]

\* a faulty variant of the cover checks: a cover.jpg that exists is used as it is
EmbedPrepare_Unverified(c, scr) ==
    IF c = Absent
    THEN [go |-> FALSE, path |-> "none", scratch |-> scr, wrote |-> {},
          out |-> <<Msg("cover_not_found", 0)>>]
    ELSE [go |-> TRUE, path |-> "cover", scratch |-> scr, wrote |-> {},
          out |-> <<Msg("found_cover", 0), Msg("using_original", 0)>>]

\* lines 96-147 of process_folder: whether the folder goes on to its MP3 files,
\* the file temp_cover_path names, the scratch file afterwards and the prints
EmbedPrepare(c, scr) ==
    LET skip(m) == [go |-> FALSE, path |-> "none", scratch |-> scr, wrote |-> {},
                    out |-> <<Msg(m, 0)>>]
    IN  IF c = Absent THEN skip("cover_not_found")
        ELSE IF c = Empty THEN skip("cover_empty")
        ELSE IF ~Decodable(c) THEN skip("cover_invalid")
        ELSE
        LET conv == c.fmt # "JPEG"
            convOk == JpegWritable(ConvertMode(c.mode))
            scr1 == IF ~conv THEN scr
                    ELSE IF convOk THEN Img("JPEG", ConvertMode(c.mode), c.w, c.h)
                    ELSE Empty
            w1   == IF conv THEN {ScratchFile} ELSE {}
            out1 == <<Msg("found_cover", 0)>>
                    \o (IF conv THEN <<Msg("converting", 0)>> ELSE <<>>)
            size == check_cover_resolution(c)
            tmp  == create_temp_cover(c, TEMP_RES)
        IN  IF conv /\ ~convOk
            THEN [go |-> FALSE, path |-> "none", scratch |-> scr1, wrote |-> w1,
                  out |-> out1 \o <<Msg("cover_invalid", 0)>>]
            ELSE IF size[1] < TEMP_RES /\ size[2] < TEMP_RES
            THEN [go |-> TRUE, path |-> "cover", scratch |-> scr1, wrote |-> w1,
                  out |-> out1 \o (IF conv THEN <<Msg("converted", 0)>> ELSE <<>>)
                               \o <<Msg("using_original", 0)>>]
            ELSE IF tmp.raised
            THEN [go |-> FALSE, path |-> "none", scratch |-> tmp.saved,
                  wrote |-> w1 \cup {ScratchFile},
                  out |-> out1 \o (IF conv THEN <<Msg("converted", 0)>> ELSE <<>>)
                               \o <<Msg("resize_error", 0)>>]
            ELSE [go |-> TRUE, path |-> "scratch", scratch |-> tmp.saved,
                  wrote |-> w1 \cup {ScratchFile},
                  out |-> out1 \o (IF conv THEN <<Msg("converted", 0)>> ELSE <<>>)
                               \o <<Msg("resized", 0)>>]

\* a faulty variant of the read: the loop reads the scratch file whatever
\* temp_cover_path names
Candidate_AlwaysScratch(c, prep) == prep.scratch

\* the image the loop reads at temp_cover_path
Candidate(c, prep) == IF prep.path = "cover" THEN c ELSE prep.scratch

\* process_folder of embed-artwork.py on a folder with cover c and MP3 files fs
EmbedFolder(c, fs, scr) ==
    LET prep == EmbedPrepare(c, scr)
        cand == Candidate(c, prep)
        res  == [i \in 1..Len(fs) |-> EmbedFile(fs[i], i, cand)]
    IN  IF ~prep.go
        THEN [mp3 |-> fs, scratch |-> prep.scratch, out |-> prep.out, wrote |-> prep.wrote]
        ELSE [mp3 |-> [i \in 1..Len(fs) |-> res[i].file],
              scratch |-> prep.scratch,
              out |-> prep.out \o ConcatAll([i \in 1..Len(fs) |-> res[i].out]),
              wrote |-> prep.wrote \cup {Mp3File(i) : i \in {j \in 1..Len(fs) : res[j].saved}}]

\* the arguments: -a, -c and -i <folder> ("" when not given, "nodir" for a path
\* that is no directory)
NoInput == ""
NoDir   == "nodir"
Args(a, c, i) == [all |-> a, cd |-> c, input |-> i]

\* main of embed-artwork.py (lines 230-249): the exit, or the folders handed
\* to process_folder in order
EmbedPlan(args) ==
    IF ~args.all /\ ~args.cd /\ args.input = NoInput
    THEN [pc |-> "exit1", queue |-> <<>>]
    ELSE IF args.input # NoInput
    THEN IF args.input \notin Folders
         THEN [pc |-> "exit1", queue |-> <<>>]
         ELSE [pc |-> "walk", queue |-> <<args.input>>]
    ELSE IF args.all
    THEN [pc |-> "walk", queue |-> Walk(Root)]
    ELSE [pc |-> "walk", queue |-> SelectSeq(Walk(Root), StartsWithCDSpace)]

Embed_main ==
    /\ tool = "embed" /\ pc = "start"
    /\ pc' = EmbedPlan(argv).pc
    /\ queue' = EmbedPlan(argv).queue
    /\ UNCHANGED <<cover, mp3, scratch, config, tool, argv, handed, out, writes, queries>>

Embed_process_folder ==
    /\ tool = "embed" /\ pc = "walk" /\ queue # <<>>
    /\ LET f == Head(queue)
           r == EmbedFolder(cover[f], mp3[f], scratch)
       IN  /\ mp3' = [mp3 EXCEPT ![f] = r.mp3]
           /\ scratch' = r.scratch
           /\ out' = r.out
           /\ writes' = r.wrote
           /\ handed' = Append(handed, f)
    /\ queue' = Tail(queue)
    /\ UNCHANGED <<cover, config, tool, argv, pc, queries>>

\* main returns once every folder has been handed over
MainReturns ==
    /\ pc = "walk" /\ queue = <<>>
    /\ pc' = "exit0"
    /\ UNCHANGED <<cover, mp3, scratch, config, tool, argv, queue, handed, out, writes, queries>>

(***************************************************************************)
(* export-coverart.py                                                      *)
(***************************************************************************)
\* export_cover_from_mp3: cover.jpg afterwards, the return value and the prints
export_cover_from_mp3(fs) ==
    IF fs = <<>>
    THEN [ret |-> FALSE, cover |-> Absent, wrote |-> {}, out |-> <<Msg("no_mp3", 0)>>]
    ELSE IF fs[1].health # "ok"
    THEN [ret |-> FALSE, cover |-> Absent, wrote |-> {}, out |-> <<Msg("error", 1)>>]
    ELSE IF ApicTags(fs[1].tags) = <<>>
    THEN [ret |-> FALSE, cover |-> Absent, wrote |-> {}, out |-> <<>>]
    ELSE [ret |-> TRUE, cover |-> ApicTags(fs[1].tags)[1].data, wrote |-> {CoverFile},
          out |-> <<Msg("exported", 1)>>]

\* a faulty variant of process_folder: the export is attempted whether or not
\* cover.jpg exists
ExportFolder_Overwrites(c, fs) ==
    LET e == export_cover_from_mp3(fs)
    IN  [cover |-> IF e.ret THEN e.cover ELSE c, wrote |-> e.wrote,
         out |-> <<Msg("cover_not_found", 0)>> \o e.out
                 \o (IF e.ret THEN <<>> ELSE <<Msg("could_not_export", 0)>>)]

\* process_folder of export-coverart.py on a folder with cover c and MP3 files fs
ExportFolder(c, fs) ==
    LET e == export_cover_from_mp3(fs)
    IN  IF c # Absent
        THEN [cover |-> c, wrote |-> {}, out |-> <<Msg("cover_exists", 0)>>]
        ELSE [cover |-> e.cover, wrote |-> e.wrote,
              out |-> <<Msg("cover_not_found", 0)>> \o e.out
                      \o (IF e.ret THEN <<>> ELSE <<Msg("could_not_export", 0)>>)]

\* main of export-coverart.py (lines 110-132)
ExportPlan(args) ==
    IF ~args.all /\ ~args.cd /\ args.input = NoInput
    THEN [pc |-> "exit1", queue |-> <<>>]
    ELSE IF args.input # NoInput
    THEN IF args.input \notin Folders
         THEN [pc |-> "exit1", queue |-> <<>>]
         ELSE [pc |-> "walk", queue |-> <<args.input>>]
    ELSE IF args.all
    THEN [pc |-> "walk", queue |-> Walk(Root)]
    ELSE [pc |-> "walk", queue |-> SelectSeq(Walk(Root), StartsWithCDSpace)]

Export_main ==
    /\ tool = "export" /\ pc = "start"
    /\ pc' = ExportPlan(argv).pc
    /\ queue' = ExportPlan(argv).queue
    /\ UNCHANGED <<cover, mp3, scratch, config, tool, argv, handed, out, writes, queries>>

Export_process_folder ==
    /\ tool = "export" /\ pc = "walk" /\ queue # <<>>
    /\ LET f == Head(queue)
           r == ExportFolder(cover[f], mp3[f])
       IN  /\ cover' = [cover EXCEPT ![f] = r.cover]
           /\ out' = r.out
           /\ writes' = r.wrote
           /\ handed' = Append(handed, f)
    /\ queue' = Tail(queue)
    /\ UNCHANGED <<mp3, scratch, config, tool, argv, pc, queries>>

(***************************************************************************)
(* id3tocovr.py                                                            *)
(***************************************************************************)
None == "none"

\* the settings id3tocovr.py reads from artwork-config.ini
Config(mb, hires, nolow) ==
    [USE_MUSICBRAINZ |-> mb, USE_HIRES_PRIORITY |-> hires, NO_LOW_RES |-> nolow]

Configs == {Config(a, b, c) : a \in BOOLEAN, b \in BOOLEAN, c \in BOOLEAN}

\* a lookup of the last call: the source and what it returned
Query(src, got) == [src |-> src, got |-> got]

\* What the providers answer to one call: each lookup "found" (a release id, a
\* URL), "nothing" (an empty result) or "raise" (an exception of the library);
\* the download "http_error", "not_image", "stream_error" or "ok" with a body.
Answers == {"found", "nothing", "raise"}
Downloads == {"http_error", "not_image", "stream_error", "ok"}

\* get_artist_album_from_id3: only ID3Error is caught (line 132)
get_artist_album_from_id3(file) ==
    IF file.health = "ok" THEN [raised |-> FALSE, known |-> TRUE]
    ELSE IF file.health = "badtag" THEN [raised |-> FALSE, known |-> FALSE]
    ELSE [raised |-> TRUE, known |-> FALSE]

\* fetch_musicbrainz_release_id: the release id, or None
fetch_musicbrainz_release_id(ans) == IF ans = "found" THEN "release_id" ELSE None

\* fetch_caa_artwork: the URL of the front image, or None
fetch_caa_artwork(ans) == IF ans = "found" THEN "caa_url" ELSE None

\* fetch_itunes_artwork: artwork_url_600 of the matching result, or None
fetch_itunes_artwork(ans) == IF ans = "found" THEN "itunes_url" ELSE None

\* fetch_lastfm_artwork: nothing is asked when NO_LOW_RES is set
fetch_lastfm_artwork(cfg, ans) ==
    IF cfg.NO_LOW_RES THEN [asked |-> FALSE, url |-> None]
    ELSE [asked |-> TRUE, url |-> IF ans = "found" THEN "lastfm_url" ELSE None]

\* download_artwork: the return value and cover.jpg afterwards
download_artwork(dl, body) ==
    CASE dl = "ok"           -> [ret |-> TRUE,  cover |-> body,      wrote |-> {CoverFile}]
      [] dl = "stream_error" -> [ret |-> FALSE, cover |-> Truncated, wrote |-> {CoverFile}]
      [] OTHER               -> [ret |-> FALSE, cover |-> Absent,    wrote |-> {}]

\* a faulty variant of the source chain: a lookup that raised ends the chain
ResolveSources_StopsAtFailure(cfg, env) ==
    LET rid  == IF cfg.USE_MUSICBRAINZ THEN fetch_musicbrainz_release_id(env.mb) ELSE None
        q1   == IF cfg.USE_MUSICBRAINZ THEN <<Query("musicbrainz", rid)>> ELSE <<>>
        url1 == IF rid # None THEN fetch_caa_artwork(env.caa) ELSE None
        q2   == IF rid # None THEN <<Query("caa", url1)>> ELSE <<>>
        bad1 == \/ cfg.USE_MUSICBRAINZ /\ env.mb = "raise"
                \/ rid # None /\ env.caa = "raise"
        it   == url1 = None /\ cfg.USE_HIRES_PRIORITY /\ ~bad1
        url2 == IF it THEN fetch_itunes_artwork(env.itunes) ELSE url1
        q3   == IF it THEN <<Query("itunes", url2)>> ELSE <<>>
        bad2 == bad1 \/ (it /\ env.itunes = "raise")
        lf   == url2 = None /\ ~cfg.NO_LOW_RES /\ ~bad2
        last == fetch_lastfm_artwork(cfg, env.lastfm)
        url3 == IF lf THEN last.url ELSE url2
        q4   == IF lf /\ last.asked THEN <<Query("lastfm", url3)>> ELSE <<>>
    IN  [url |-> url3, queries |-> q1 \o q2 \o q3 \o q4]

\* a faulty variant of the source chain: Last.fm is asked whether or not an
\* earlier source gave a URL
ResolveSources_LastfmAlways(cfg, env) ==
    LET rid  == IF cfg.USE_MUSICBRAINZ THEN fetch_musicbrainz_release_id(env.mb) ELSE None
        q1   == IF cfg.USE_MUSICBRAINZ THEN <<Query("musicbrainz", rid)>> ELSE <<>>
        url1 == IF rid # None THEN fetch_caa_artwork(env.caa) ELSE None
        q2   == IF rid # None THEN <<Query("caa", url1)>> ELSE <<>>
        it   == url1 = None /\ cfg.USE_HIRES_PRIORITY
        url2 == IF it THEN fetch_itunes_artwork(env.itunes) ELSE url1
        q3   == IF it THEN <<Query("itunes", url2)>> ELSE <<>>
        lf   == ~cfg.NO_LOW_RES
        last == fetch_lastfm_artwork(cfg, env.lastfm)
        url3 == IF lf THEN last.url ELSE url2
        q4   == IF lf /\ last.asked THEN <<Query("lastfm", url3)>> ELSE <<>>
    IN  [url |-> url3, queries |-> q1 \o q2 \o q3 \o q4]

\* lines 239-250 of fetch_artwork_for_folder: the lookups made, in order, and
\* the artwork URL they end with
ResolveSources(cfg, env) ==
    LET rid  == IF cfg.USE_MUSICBRAINZ THEN fetch_musicbrainz_release_id(env.mb) ELSE None
        q1   == IF cfg.USE_MUSICBRAINZ THEN <<Query("musicbrainz", rid)>> ELSE <<>>
        url1 == IF rid # None THEN fetch_caa_artwork(env.caa) ELSE None
        q2   == IF rid # None THEN <<Query("caa", url1)>> ELSE <<>>
        it   == url1 = None /\ cfg.USE_HIRES_PRIORITY
        url2 == IF it THEN fetch_itunes_artwork(env.itunes) ELSE url1
        q3   == IF it THEN <<Query("itunes", url2)>> ELSE <<>>
        lf   == url2 = None /\ ~cfg.NO_LOW_RES
        last == fetch_lastfm_artwork(cfg, env.lastfm)
        url3 == IF lf THEN last.url ELSE url2
        q4   == IF lf /\ last.asked THEN <<Query("lastfm", url3)>> ELSE <<>>
    IN  [url |-> url3, queries |-> q1 \o q2 \o q3 \o q4]

\* what the provider of a source answers under env
AnswerOf(env, src) ==
    CASE src = "musicbrainz" -> env.mb
      [] src = "caa"         -> env.caa
      [] src = "itunes"      -> env.itunes
      [] OTHER               -> env.lastfm

\* the record logging.error writes when the lookup of a source raised
FailedMsg(src) ==
    CASE src = "musicbrainz" -> "failed_musicbrainz"
      [] src = "caa"         -> "failed_caa"
      [] src = "itunes"      -> "failed_itunes"
      [] OTHER               -> "failed_lastfm"

\* the error records of the lookups made: one for each lookup that raised,
\* written by the except clause of its fetch function
LookupErrors(cfg, env) ==
    LET raised == SelectSeq(ResolveSources(cfg, env).queries,
                            LAMBDA q : AnswerOf(env, q.src) = "raise")
    IN  [i \in 1..Len(raised) |-> Msg(FailedMsg(raised[i].src), 0)]

\* fetch_artwork_for_folder on a folder with cover c and MP3 files fs
FetchFolder(c, fs, cfg, env) ==
    LET quiet(m) == [raised |-> FALSE, cover |-> c, wrote |-> {}, queries |-> <<>>,
                     out |-> <<Msg(m, 0)>>]
        id  == get_artist_album_from_id3(fs[1])
        rs  == ResolveSources(cfg, env)
        dl  == download_artwork(env.download, env.body)
    IN  IF c # Absent THEN quiet("cover_exists")
        ELSE IF fs = <<>> THEN quiet("no_mp3")
        ELSE IF id.raised
        THEN [raised |-> TRUE, cover |-> c, wrote |-> {}, queries |-> <<>>, out |-> <<>>]
        ELSE IF rs.url = None
        THEN [raised |-> FALSE, cover |-> c, wrote |-> {}, queries |-> rs.queries,
              out |-> <<Msg("processing_folder", 0)>> \o LookupErrors(cfg, env)
                      \o <<Msg("no_artwork_found", 0)>>]
        ELSE [raised |-> FALSE, cover |-> dl.cover, wrote |-> dl.wrote,
              queries |-> Append(rs.queries, Query("download", rs.url)),
              out |-> <<Msg("processing_folder", 0)>> \o LookupErrors(cfg, env)
                      \o <<Msg(IF dl.ret THEN "artwork_saved" ELSE "download_failed", 0)>>]

\* the directories of album d that process_folder takes for CD folders (line 284)
cd_folders(d) == SelectSeq(Children(d), LowerStartsWithCd)

\* the folders process_folder hands to fetch_artwork_for_folder for one album
AlbumTargets(d, process_cd_folders) ==
    IF process_cd_folders /\ cd_folders(d) # <<>> THEN cd_folders(d) ELSE <<d>>

\* process_folder of id3tocovr.py (lines 270-293): every album of every artist
Id3Targets(root, process_cd_folders) ==
    LET artists == Children(root)
        albums  == ConcatAll([i \in 1..Len(artists) |-> Children(artists[i])])
    IN  ConcatAll([i \in 1..Len(albums) |-> AlbumTargets(albums[i], process_cd_folders)])

\* main of id3tocovr.py (lines 318-338); -c without -a or -i does nothing
Id3Plan(args) ==
    IF ~args.all /\ ~args.cd /\ args.input = NoInput
    THEN [pc |-> "exit1", queue |-> <<>>]
    ELSE IF args.input # NoInput
    THEN IF args.input \notin Folders
         THEN [pc |-> "exit1", queue |-> <<>>]
         ELSE [pc |-> "walk", queue |-> <<args.input>>]
    ELSE IF args.all
    THEN [pc |-> "walk", queue |-> Id3Targets(Root, args.cd)]
    ELSE [pc |-> "walk", queue |-> <<>>]

Id3_main ==
    /\ tool = "fetch" /\ pc = "start"
    /\ pc' = Id3Plan(argv).pc
    /\ queue' = Id3Plan(argv).queue
    /\ UNCHANGED <<cover, mp3, scratch, config, tool, argv, handed, out, writes, queries>>

Bodies == {Img("JPEG", "RGB", TEMP_RES + 1, TEMP_RES + 1),
           Img("PNG", "RGBA", TEMP_RES, TEMP_RES), Garbage}

Env(mb, caa, it, lf, dl, body) ==
    [mb |-> mb, caa |-> caa, itunes |-> it, lastfm |-> lf, download |-> dl, body |-> body]

\* whether the lookups under settings cfg and answers env ask source src
Asked(cfg, env, src) ==
    \E i \in 1..Len(ResolveSources(cfg, env).queries) :
        ResolveSources(cfg, env).queries[i].src = src

\* the answers a source can give; one that is not asked gives none
AnswersOf(asked) == IF asked THEN Answers ELSE {"nothing"}

\* the downloads that can follow; none without a URL, no body unless it succeeds
DownloadsOf(hasUrl) ==
    IF hasUrl THEN ({"http_error", "not_image", "stream_error"} \X {Garbage}) \cup ({"ok"} \X Bodies)
    ELSE {<<"http_error", Garbage>>}

\* whether the call gets as far as the lookups (lines 219-237)
ReachesLookups(c, fs) ==
    c = Absent /\ fs # <<>> /\ ~get_artist_album_from_id3(fs[1]).raised

\* an uncaught exception ends the process: the traversal stops where it is
Id3_fetch_artwork_for_folder ==
    /\ tool = "fetch" /\ pc = "walk" /\ queue # <<>>
    /\ LET f == Head(queue)
           go == ReachesLookups(cover[f], mp3[f])
           n == "nothing"
           h == "http_error"
       IN
       \E mb \in AnswersOf(go /\ Asked(config, Env(n, n, n, n, h, Garbage), "musicbrainz")) :
       \E caa \in AnswersOf(go /\ Asked(config, Env(mb, n, n, n, h, Garbage), "caa")) :
       \E it \in AnswersOf(go /\ Asked(config, Env(mb, caa, n, n, h, Garbage), "itunes")) :
       \E lf \in AnswersOf(go /\ Asked(config, Env(mb, caa, it, n, h, Garbage), "lastfm")) :
       \E dl \in DownloadsOf(go /\ ResolveSources(config, Env(mb, caa, it, lf, h, Garbage)).url # None) :
         LET r == FetchFolder(cover[f], mp3[f], config, Env(mb, caa, it, lf, dl[1], dl[2]))
         IN  /\ cover' = [cover EXCEPT ![f] = r.cover]
             /\ out' = r.out
             /\ writes' = r.wrote
             /\ queries' = r.queries
             /\ handed' = Append(handed, f)
             /\ pc' = IF r.raised THEN "crash" ELSE "walk"
             /\ queue' = Tail(queue)
    /\ UNCHANGED <<mp3, scratch, config, tool, argv>>

(***************************************************************************)
(* Libraries and runs the model starts from                                *)
(***************************************************************************)
\* picture type and description of the i-th APIC frame a file starts with
TypeAt(i) == CASE i = 1 -> 3 [] i = 2 -> 4 [] OTHER -> 6
DescAt(i) == CASE i = 1 -> "Cover" [] i = 2 -> "Back" [] OTHER -> "Media"

\* the frames of a file whose first APIC frame holds `first`, followed by
\* `extra` more APIC frames holding `rest`
TagsOf(first, extra, rest) ==
    <<TextFrame>> \o [i \in 1..(1 + extra) |->
                        APIC(TypeAt(i), DescAt(i), IF i = 1 THEN first ELSE rest)]

NoArtwork == <<TextFrame>>

\* a folder of n tracks that carry the same frames, the one at position bad
\* (0: none) damaged with health hl
Tracks(n, tg, bad, hl) ==
    [i \in 1..n |-> IF i = bad THEN Mp3(hl, <<>>) ELSE Mp3("ok", tg)]

BigJpeg   == Img("JPEG", "RGB", TEMP_RES + 1, TEMP_RES + 1)
SmallJpeg == Img("JPEG", "RGB", TEMP_RES - 1, TEMP_RES - 1)
SmallPng  == Img("PNG", "RGB", TEMP_RES - 1, TEMP_RES - 1)

JpegImages == {b \in Images : b.fmt = "JPEG"}

EmptyLibrary == [f \in Folders |-> <<>>]
NoCovers     == [f \in Folders |-> Absent]

TrackLists(tagsets) ==
    {Tracks(n, tg, bad, hl) : n \in 0..MaxFiles, tg \in tagsets,
                              bad \in 0..MaxFiles, hl \in {"badtag", "ioerror"}}

TagSets(firsts) ==
    {NoArtwork} \cup {TagsOf(d, k, BigJpeg) : d \in firsts, k \in 0..(MaxTags - 1)}

Tools == {"embed", "export", "fetch"}

AllArgs == {Args(a, c, i) : a \in BOOLEAN, c \in BOOLEAN, i \in {NoInput, NoDir, "CD 1"}}

\* a tool is started with its arguments
InitRun(tools, runs) ==
    /\ tool \in tools
    /\ argv \in runs
    /\ pc = "start"
    /\ queue = <<>>
    /\ handed = <<>>
    /\ out = <<>>
    /\ writes = {}
    /\ queries = <<>>

\* embed-artwork.py run on a library whose folder "CD 1" holds any cover.jpg
\* and tracks with any first artwork, and whose folder "CD 2" holds one track
\* without artwork
InitEmbed ==
    /\ \E c \in {Absent, Empty, Garbage} \cup Images,
          c2 \in {Absent, BigJpeg, SmallPng},
          fs \in TrackLists(TagSets(JpegImages \cup {Garbage})) :
            /\ cover = [NoCovers EXCEPT !["CD 1"] = c, !["CD 2"] = c2]
            /\ mp3 = [EmptyLibrary EXCEPT !["CD 1"] = fs,
                                          !["CD 2"] = Tracks(1, NoArtwork, 0, "ok")]
    /\ scratch = Absent
    /\ config = Config(TRUE, TRUE, FALSE)
    /\ InitRun({"embed"}, {Args(TRUE, FALSE, NoInput), Args(FALSE, TRUE, NoInput),
                           Args(FALSE, FALSE, "CD 1"), Args(FALSE, FALSE, NoDir)})

NextEmbed == Embed_main \/ Embed_process_folder \/ MainReturns

SpecEmbed == InitEmbed /\ [][NextEmbed]_vars

\* any of the three tools run, with any arguments and settings, on a library
\* whose folders "CD 1" and "Single" hold a cover.jpg (or none) and tracks
LibCovers == {Absent, Empty, Garbage, BigJpeg, SmallJpeg, SmallPng,
              Img("PNG", "RGBA", TEMP_RES + 1, TEMP_RES), Img("PNG", "LA", TEMP_RES, TEMP_RES)}

LibFirsts == {SmallJpeg, Img("PNG", "RGB", TEMP_RES, TEMP_RES + 1), Garbage}

Init ==
    /\ \E c \in LibCovers, c2 \in {Absent, BigJpeg},
          fs \in TrackLists(TagSets(LibFirsts)) :
            /\ cover = [NoCovers EXCEPT !["CD 1"] = c, !["Single"] = c2]
            /\ mp3 = [EmptyLibrary EXCEPT !["CD 1"] = fs,
                                          !["Single"] = Tracks(1, NoArtwork, 0, "ok")]
    /\ scratch = Absent
    /\ InitRun(Tools, AllArgs)
    /\ config \in (IF tool = "fetch" THEN Configs ELSE {Config(TRUE, TRUE, FALSE)})

Next ==
    \/ Embed_main \/ Embed_process_folder
    \/ Export_main \/ Export_process_folder
    \/ Id3_main \/ Id3_fetch_artwork_for_folder
    \/ MainReturns

Spec == Init /\ [][Next]_vars

\* export-coverart.py and then embed-artwork.py, with the same arguments, on a
\* library whose folder "CD 1" has no cover.jpg and whose first track there
\* carries artwork of any encoding and size
ThenEmbed ==
    /\ tool = "export" /\ pc = "exit0"
    /\ tool' = "embed"
    /\ pc' = "start"
    /\ queue' = <<>>
    /\ handed' = <<>>
    /\ out' = <<>>
    /\ writes' = {}
    /\ UNCHANGED <<cover, mp3, scratch, config, argv, queries>>

InitRoundTrip ==
    /\ \E tg \in {TagsOf(d, k, BigJpeg) : d \in Images, k \in 0..(MaxTags - 1)},
          n \in 1..MaxFiles, bad \in {0} \cup (2..MaxFiles), hl \in {"badtag", "ioerror"} :
            mp3 = [EmptyLibrary EXCEPT !["CD 1"] = Tracks(n, tg, bad, hl)]
    /\ cover = NoCovers
    /\ scratch = Absent
    /\ config = Config(TRUE, TRUE, FALSE)
    /\ InitRun({"export"}, {Args(TRUE, FALSE, NoInput), Args(FALSE, TRUE, NoInput),
                            Args(FALSE, FALSE, "CD 1")})

NextRoundTrip ==
    \/ Export_main \/ Export_process_folder
    \/ ThenEmbed
    \/ Embed_main \/ Embed_process_folder
    \/ MainReturns

SpecRoundTrip == InitRoundTrip /\ [][NextRoundTrip]_vars

\* One run after another on the same library: when a run has ended, any of
\* the three tools is started again. The folders "CD 1" and "Single" hold
\* tracks; "CD 1" starts with or without cover.jpg, "Single" without.
RunArgs == {Args(FALSE, FALSE, "CD 1"), Args(FALSE, TRUE, NoInput), Args(TRUE, FALSE, NoInput)}

RunConfigs == {Config(TRUE, TRUE, FALSE), Config(FALSE, FALSE, FALSE)}

Relaunch ==
    /\ pc \in {"exit0", "exit1", "crash"}
    /\ tool' \in Tools
    /\ argv' \in RunArgs
    /\ config' \in RunConfigs
    /\ pc' = "start"
    /\ queue' = <<>>
    /\ handed' = <<>>
    /\ out' = <<>>
    /\ writes' = {}
    /\ queries' = <<>>
    /\ UNCHANGED <<cover, mp3, scratch>>

InitRuns ==
    /\ \E c \in {Absent, Empty, Garbage, SmallJpeg, BigJpeg},
          fs \in {Tracks(n, tg, 0, "ok") : n \in 0..MaxFiles,
                                          tg \in {NoArtwork, TagsOf(SmallJpeg, 0, BigJpeg)}} :
            /\ cover = [NoCovers EXCEPT !["CD 1"] = c]
            /\ mp3 = [EmptyLibrary EXCEPT !["CD 1"] = fs,
                                          !["Single"] = Tracks(1, NoArtwork, 0, "ok")]
    /\ scratch = Absent
    /\ InitRun(Tools, RunArgs)
    /\ config \in RunConfigs

NextRuns ==
    \/ Embed_main \/ Embed_process_folder
    \/ Export_main \/ Export_process_folder
    \/ Id3_main \/ Id3_fetch_artwork_for_folder
    \/ MainReturns
    \/ Relaunch

SpecRuns == InitRuns /\ [][NextRuns]_vars

\* embed-artwork.py run over the two folders of an album, "CD 1" and then
\* "CD 2", each with any cover.jpg (or none) and with tracks
InitTraversal ==
    /\ \E c1 \in {Absent, Empty, Garbage} \cup Images,
          c2 \in {Absent, Empty, Garbage} \cup Images,
          tg \in {NoArtwork, TagsOf(SmallJpeg, 0, BigJpeg)} :
            /\ cover = [NoCovers EXCEPT !["CD 1"] = c1, !["CD 2"] = c2]
            /\ mp3 = [EmptyLibrary EXCEPT !["CD 1"] = Tracks(1, NoArtwork, 0, "ok"),
                                          !["CD 2"] = Tracks(1, tg, 0, "ok")]
    /\ scratch = Absent
    /\ config = Config(TRUE, TRUE, FALSE)
    /\ InitRun({"embed"}, {Args(TRUE, FALSE, NoInput), Args(FALSE, TRUE, NoInput)})

SpecTraversal == InitTraversal /\ [][NextEmbed]_vars

(***************************************************************************)
(* What the claims speak of                                                *)
(***************************************************************************)
Range(s) == {s[i] : i \in 1..Len(s)}

\* the folder of the last per-folder call
Last == handed[Len(handed)]

\* the image the last call of embed-artwork's process_folder read as candidate
LastCandidate ==
    IF Msg("using_original", 0) \in Range(out) THEN cover[Last] ELSE scratch

\* the MP3 files the last per-folder call saved
SavedFiles == {i \in 1..Len(mp3[Last]) : Mp3File(i) \in writes}

\* the number of "removed" prints of the last call for file i
Removed(i) == Cardinality({k \in 1..Len(out) : out[k] = Msg("removed", i)})

\* the size of the first artwork of a file: <<0, 0>> without a readable one
ArtSize(file) ==
    LET a == ApicTags(file.tags)
    IN  IF a # <<>> /\ Decodable(a[1].data) THEN <<a[1].data.w, a[1].data.h>> ELSE <<0, 0>>

ArtCount(file) == Len(ApicTags(file.tags))

(***************************************************************************)
(* C1 - embed-artwork's process_folder never replaces the artwork a file   *)
(* carries when that artwork is at least as wide or at least as high as    *)
(* the candidate: a file whose artwork changes had artwork strictly        *)
(* smaller than the candidate in both width and height.                    *)
(***************************************************************************)
C1_ReplacedOnlyWhenStrictlyLargerInBoth ==
    [][\A f \in Folders : \A i \in 1..Len(mp3[f]) :
          (tool = "embed" /\ ArtCount(mp3[f][i]) > 0 /\ mp3'[f][i] # mp3[f][i])
            => /\ LastCandidate'.w > ArtSize(mp3[f][i])[1]
               /\ LastCandidate'.h > ArtSize(mp3[f][i])[2]]_vars

(***************************************************************************)
(* C2 - every MP3 file that embed-artwork's process_folder saves holds     *)
(* exactly one APIC frame afterwards, whatever number it held before: the  *)
(* front cover (type 3), described "Cover", with the candidate's bytes.    *)
(***************************************************************************)
C2_SavedFileHoldsExactlyTheNewCover ==
    (tool = "embed" /\ handed # <<>>) =>
        \A i \in SavedFiles :
            LET a == ApicTags(mp3[Last][i].tags)
            IN  /\ Len(a) = 1
                /\ a[1].type = 3
                /\ a[1].desc = "Cover"
                /\ a[1].data = LastCandidate

\* C2, reached: a file that held two APIC frames was saved with the new cover
C2_Witness ==
    /\ tool = "embed" /\ handed # <<>>
    /\ \E i \in SavedFiles : Removed(i) = 2 /\ Msg("embedded", i) \in Range(out)

\* embed-artwork has processed the folder the export ran on
RoundTripDone == tool = "embed" /\ "CD 1" \in Range(handed)

(***************************************************************************)
(* C3 - round trip: export-coverart and then embed-artwork on a folder     *)
(* without cover.jpg whose first MP3 carries artwork leave that MP3 with   *)
(* artwork of the same dimensions and with exactly one APIC frame.         *)
(***************************************************************************)
C3_RoundTripLeavesExactlyOneFrame ==
    [][/\ ArtSize(mp3'["CD 1"][1]) = ArtSize(mp3["CD 1"][1])
       /\ RoundTripDone' => ArtCount(mp3'["CD 1"][1]) = 1]_vars

\* C3, amended - the round trip leaves the first MP3 as it was: its artwork
\* keeps its dimensions and the file keeps the number of APIC frames it had
C3_RoundTripKeepsArtworkAndFrameCount ==
    [][/\ ArtSize(mp3'["CD 1"][1]) = ArtSize(mp3["CD 1"][1])
       /\ ArtCount(mp3'["CD 1"][1]) = ArtCount(mp3["CD 1"][1])]_vars

\* C3, reached: the export wrote cover.jpg and embed-artwork then compared it with the
\* artwork of the first file and kept that artwork
C3_Witness ==
    /\ RoundTripDone
    /\ Last = "CD 1"
    /\ cover["CD 1"] = ApicTags(mp3["CD 1"][1].tags)[1].data
    /\ Msg("skip_embedding", 1) \in Range(out)

(***************************************************************************)
(* C4 - a per-folder call of any of the three tools on a folder without    *)
(* MP3 files reports that no files were found and writes no file: no       *)
(* cover.jpg, no scratch image, no audio file.                             *)
(***************************************************************************)
C4_NoFilesReportedAndNothingWritten ==
    (handed # <<>> /\ mp3[Last] = <<>>) =>
        /\ writes = {}
        /\ Msg("no_mp3", 0) \in Range(out)

\* a cover.jpg that is empty or that Image.open rejects
Undecodable(b) == b.kind \in {"empty", "garbage"}

(***************************************************************************)
(* C5 - when cover.jpg is zero bytes long or no decodable image, the call  *)
(* of embed-artwork's process_folder changes and saves no MP3 file, opens  *)
(* none, raises nothing, and the traversal goes on with the next folder.   *)
(***************************************************************************)
C5_UndecodableCoverSkipsFolder ==
    [][(tool = "embed" /\ handed' # handed /\ Undecodable(cover[Head(queue)]))
          => /\ mp3' = mp3
             /\ writes' = {}
             /\ \A k \in 1..Len(out') : out'[k].file = 0
             /\ pc' = "walk"
             /\ queue' = Tail(queue)]_vars

\* C5, reached: a folder with tracks and an undecodable cover.jpg was skipped and the next
\* folder of the traversal was handed over after it
C5_Witness ==
    /\ tool = "embed"
    /\ Len(handed) >= 2
    /\ \E k \in 1..(Len(handed) - 1) :
          Undecodable(cover[handed[k]]) /\ mp3[handed[k]] # <<>>

\* the place of a source in the priority order
Rank(src) == CASE src = "musicbrainz" -> 1 [] src = "caa" -> 2
               [] src = "itunes" -> 3 [] src = "lastfm" -> 4 [] OTHER -> 5

\* a lookup that gave a candidate URL (a release id is none)
GaveCandidate(q) == q.src \in {"caa", "itunes", "lastfm"} /\ q.got # None

\* the lookups of the last call, without the download that follows them
Lookups == SelectSeq(queries, LAMBDA q : q.src # "download")

(***************************************************************************)
(* C6 - fetch_artwork_for_folder asks the sources in the order MusicBrainz *)
(* / Cover Art Archive, iTunes, Last.fm: MusicBrainz first when enabled, a *)
(* later source only when every earlier one gave no candidate, none after  *)
(* the first candidate, and Last.fm never when NO_LOW_RES is set.          *)
(***************************************************************************)
C6_SourcesInPriorityOrder ==
    tool = "fetch" =>
        /\ \A i, j \in 1..Len(Lookups) : i < j => Rank(Lookups[i].src) < Rank(Lookups[j].src)
        /\ \A i, j \in 1..Len(Lookups) : i < j => ~GaveCandidate(Lookups[i])
        /\ \A i \in 1..Len(Lookups) :
              Lookups[i].src = "caa" => i > 1 /\ Lookups[i - 1] = Query("musicbrainz", "release_id")
        /\ (config.USE_MUSICBRAINZ /\ Msg("processing_folder", 0) \in Range(out))
              => (Lookups # <<>> /\ Lookups[1].src = "musicbrainz")
        /\ config.NO_LOW_RES => \A i \in 1..Len(Lookups) : Lookups[i].src # "lastfm"

\* C6, reached: MusicBrainz gave nothing, iTunes gave the candidate, and Last.fm, though
\* allowed, was not asked: the download followed at once
C6_Witness ==
    /\ tool = "fetch" /\ ~config.NO_LOW_RES
    /\ Len(queries) = 3
    /\ queries[1] = Query("musicbrainz", None)
    /\ queries[2] = Query("itunes", "itunes_url")
    /\ queries[3] = Query("download", "itunes_url")

\* the traversal the running tool planned from its arguments
Plan ==
    CASE tool = "embed"  -> EmbedPlan(argv)
      [] tool = "export" -> ExportPlan(argv)
      [] OTHER           -> Id3Plan(argv)

(***************************************************************************)
(* C7 - an error while one audio file is processed is caught and skips     *)
(* that file only: the other files of the folder and the other folders are *)
(* still processed, in all three tools; no run ends with an uncaught       *)
(* exception before every folder of its traversal was handed over.         *)
(***************************************************************************)
C7_FileErrorsNeverEndTheTraversal ==
    pc \in {"exit0", "crash"} => handed = Plan.queue

\* a folder directly under an artist folder
IsAlbum(d) == \E i \in 1..Len(Children(Root)) : d \in Range(Children(Children(Root)[i]))

(***************************************************************************)
(* C8 - with -a and -c together, every folder handed to per-folder         *)
(* processing is a "CD <n>" directory (in id3tocovr also an album folder   *)
(* without CD subfolders), in each of the three tools.                     *)
(***************************************************************************)
C8_AllWithCdHandsOverCdFoldersOnly ==
    (argv.all /\ argv.cd /\ argv.input = NoInput) =>
        \A f \in Range(handed) :
            \/ StartsWithCDSpace(f)
            \/ tool = "fetch" /\ IsAlbum(f) /\ cd_folders(f) = <<>>

(***************************************************************************)
(* C9 - a cover.jpg written by a tool (exported from an APIC frame or      *)
(* downloaded) holds a valid JPEG image.                                   *)
(***************************************************************************)
C9_WrittenCoverIsJpeg ==
    (handed # <<>> /\ CoverFile \in writes) => IsJPEG(cover[Last])

(***************************************************************************)
(* C10 - whenever embed-artwork's process_folder embeds artwork into an    *)
(* MP3 file, the embedded bytes are JPEG-encoded, also when cover.jpg is   *)
(* not a JPEG, below or at/above TEMP_RES.                                 *)
(***************************************************************************)
C10_EmbeddedBytesAreJpeg ==
    (tool = "embed" /\ handed # <<>>) =>
        \A i \in SavedFiles :
            \A k \in 1..ArtCount(mp3[Last][i]) : IsJPEG(ApicTags(mp3[Last][i].tags)[k].data)

\* the last call of embed-artwork's process_folder went on to the MP3 files
\* with a candidate
HasCandidate ==
    /\ tool = "embed" /\ handed # <<>>
    /\ \/ Msg("using_original", 0) \in Range(out)
       \/ Msg("resized", 0) \in Range(out)

\* the size the claim gives the candidate of a w x h cover under target R
ExpectedSize(w, h, R) == IF w >= R /\ h >= R THEN <<R, R>> ELSE <<w, h>>

(***************************************************************************)
(* C11 - the candidate of a w x h cover under target R = TEMP_RES measures *)
(* R x R when w >= R and h >= R, and w x h otherwise (both below R, or     *)
(* only one at or above R); it is never larger than the cover in either    *)
(* dimension.                                                              *)
(***************************************************************************)
C11_CandidateSizeIsNormalized ==
    HasCandidate =>
        /\ <<LastCandidate.w, LastCandidate.h>>
              = ExpectedSize(cover[Last].w, cover[Last].h, TEMP_RES)
        /\ LastCandidate.w <= cover[Last].w
        /\ LastCandidate.h <= cover[Last].h

\* C11, reached: a cover with only its width at TEMP_RES or above went through
\* create_temp_cover and was embedded with its own size
C11_Witness ==
    /\ HasCandidate
    /\ Msg("resized", 0) \in Range(out)
    /\ cover[Last].w > TEMP_RES /\ cover[Last].h < TEMP_RES
    /\ SavedFiles # {}

\* the last call of fetch_artwork_for_folder got as far as the lookups
LookedUp ==
    tool = "fetch" /\ handed # <<>> /\ Msg("processing_folder", 0) \in Range(out)

\* the settings enable a source that follows MusicBrainz / Cover Art Archive
EnabledLater(src) ==
    CASE src = "itunes" -> config.USE_HIRES_PRIORITY
      [] src = "lastfm" -> ~config.NO_LOW_RES
      [] OTHER          -> FALSE

\* no lookup of a source before src in the priority order gave a candidate
NoCandidateBefore(src) ==
    \A j \in 1..Len(Lookups) :
        Rank(Lookups[j].src) < Rank(src) => ~GaveCandidate(Lookups[j])

(***************************************************************************)
(* C12 - a lookup of a provider that raises or returns nothing yields no   *)
(* candidate, its error does not leave fetch_artwork_for_folder, and every *)
(* enabled source after it in the priority order is still asked (as long   *)
(* as no source before that one gave a candidate).                         *)
(***************************************************************************)
C12_LookupsFailSoft ==
    LookedUp =>
        /\ pc # "crash"
        /\ \A i \in 1..Len(Lookups) :
              Msg(FailedMsg(Lookups[i].src), 0) \in Range(out) => Lookups[i].got = None
        /\ \A i \in 1..Len(Lookups) : \A src \in {"itunes", "lastfm"} :
              (/\ Lookups[i].got = None
               /\ Rank(Lookups[i].src) < Rank(src)
               /\ EnabledLater(src)
               /\ NoCandidateBefore(src))
                => \E j \in (i + 1)..Len(Lookups) : Lookups[j].src = src

\* C12, reached: the MusicBrainz search and the iTunes search both raised, and
\* Last.fm was still asked and gave the artwork that was downloaded
C12_Witness ==
    /\ LookedUp
    /\ Msg("failed_musicbrainz", 0) \in Range(out)
    /\ Msg("failed_itunes", 0) \in Range(out)
    /\ Len(queries) = 4
    /\ queries[3] = Query("lastfm", "lastfm_url")
    /\ queries[4] = Query("download", "lastfm_url")

(***************************************************************************)
(* C13 - a cover.jpg that exists in a folder is never overwritten,         *)
(* truncated or deleted, by any step of any run of the three tools, in any *)
(* sequence of runs: it keeps its content.                                 *)
(***************************************************************************)
C13_ExistingCoverIsKept ==
    [][\A f \in Folders : cover[f] # Absent => cover'[f] = cover[f]]_vars

\* C13, reached: id3tocovr downloaded a PNG as cover.jpg of "CD 1", a run of
\* embed-artwork embedded its resized copy, and a run of export-coverart then
\* met the cover.jpg and skipped the folder
C13_Witness ==
    /\ tool = "export" /\ handed # <<>> /\ Last = "CD 1"
    /\ out = <<Msg("cover_exists", 0)>>
    /\ cover["CD 1"] = Img("PNG", "RGBA", TEMP_RES, TEMP_RES)
    /\ mp3["CD 1"] # <<>>
    /\ ArtSize(mp3["CD 1"][1]) = <<TEMP_RES, TEMP_RES>>

(***************************************************************************)
(* C14 - when download_artwork fails for a folder that had no cover.jpg    *)
(* (HTTP error, no image content type, error while the body is streamed to *)
(* disk), the folder has no cover.jpg afterwards, so that a later run does *)
(* not skip it as already having one.                                      *)
(***************************************************************************)
C14_FailedDownloadLeavesNoCover ==
    (tool = "fetch" /\ handed # <<>> /\ Msg("download_failed", 0) \in Range(out))
        => cover[Last] = Absent

\* image d is the JPEG copy of cover c that the current call makes: same
\* picture in a mode a JPEG holds, at the size of the normalized candidate
DerivedFrom(d, c) ==
    /\ d.kind = "image" /\ c.kind = "image"
    /\ d.fmt = "JPEG"
    /\ d.mode = (IF c.mode \in {"RGBA", "P"} THEN "RGB" ELSE c.mode)
    /\ <<d.w, d.h>> = ExpectedSize(c.w, c.h, TEMP_RES)

(***************************************************************************)
(* C15 - in a traversal of several folders, the artwork embedded into the  *)
(* files of a folder is that folder's cover.jpg or the copy of it that the *)
(* current call wrote to /tmp/temp_cover.jpg, never the scratch image an   *)
(* earlier folder left; when converting or resizing the cover fails, no    *)
(* file of the folder is changed.                                          *)
(***************************************************************************)
C15_EmbeddedComesFromThisFoldersCover ==
    (tool = "embed" /\ handed # <<>>) =>
        /\ \A i \in SavedFiles :
              LET d == ApicTags(mp3[Last][i].tags)[1].data
              IN  \/ d = cover[Last]
                  \/ /\ ScratchFile \in writes
                     /\ Msg("resized", 0) \in Range(out)
                     /\ d = scratch
                     /\ DerivedFrom(d, cover[Last])
        /\ (\/ Msg("cover_invalid", 0) \in Range(out)
            \/ Msg("resize_error", 0) \in Range(out)) => SavedFiles = {}

\* C15, reached: "CD 1" left its resized cover in the scratch file, and the
\* files of "CD 2" then got the cover.jpg of "CD 2", which the call used as
\* it is without writing the scratch file
C15_Witness ==
    /\ tool = "embed" /\ handed = <<"CD 1", "CD 2">>
    /\ scratch = Img("JPEG", "RGB", TEMP_RES, TEMP_RES)
    /\ ScratchFile \notin writes
    /\ SavedFiles # {}
    /\ \A i \in SavedFiles : ApicTags(mp3["CD 2"][i].tags)[1].data = cover["CD 2"]
    /\ cover["CD 2"] # scratch

====
